---- MODULE Spec2Model ----
(***************************************************************************)
(* Model of setup.py, the packaging manifest of the toolchain package.     *)
(*                                                                         *)
(* One run of the manifest is a small sequential program: the keyword      *)
(* arguments of setup() are evaluated in source order (the metadata        *)
(* strings, then the glob over the file tree, then the list comprehension  *)
(* that strips ".py", then the literal lists and the entry point dict) and *)
(* setup() is then called once with the resulting keyword record.  The     *)
(* file tree below the current directory is the input of the run; other    *)
(* processes may create and remove files while the manifest runs.          *)
(*                                                                         *)
(* Python values carry their type (str, list, dict); paths and names are   *)
(* strings, examined character by character as str.removesuffix, fnmatch   *)
(* and glob examine them.  Path handling is that of a POSIX host           *)
(* (os.sep = "/", case-sensitive names), str.removesuffix is that of       *)
(* Python >= 3.9, and glob is the standard library's glob.glob with        *)
(* recursive=True and include_hidden=False (its default).                  *)
(***************************************************************************)
EXTENDS Integers, Sequences, FiniteSets, TLC

VARIABLES
    tree,       \* the file tree under the current directory: a set of nodes
    pc,         \* position of the run inside setup.py
    matches,    \* the list glob() returned
    seenTree,   \* the file tree as it was when glob() listed it
    kwargs,     \* the keyword arguments evaluated so far
    calls,      \* the keyword records setup() has been called with
    log,        \* the library calls the run has made, in order
    changes     \* number of file tree changes made by other processes

vars == <<tree, pc, matches, seenTree, kwargs, calls, log, changes>>

(***************************************************************************)
(* Bounds of the model.                                                    *)
(***************************************************************************)
MaxNodes == 5       \* nodes in the file tree
MaxChanges == 1     \* file tree changes by other processes during one run

(***************************************************************************)
(* Python values.                                                          *)
(***************************************************************************)
Str(s) == [type |-> "str", val |-> s]
List(xs) == [type |-> "list", items |-> xs]
Dict(f) == [type |-> "dict", map |-> f]

(***************************************************************************)
(* String helpers: the str methods the manifest and glob rely on.          *)
(***************************************************************************)
CharAt(s, i) == SubSeq(s, i, i)

StartsWith(s, prefix) ==
    /\ Len(s) >= Len(prefix)
    /\ SubSeq(s, 1, Len(prefix)) = prefix

EndsWith(s, suffix) ==
    /\ Len(s) >= Len(suffix)
    /\ SubSeq(s, Len(s) - Len(suffix) + 1, Len(s)) = suffix

\* str.rstrip(chars): trailing characters are dropped while they occur in
\* chars, which is a set of characters and not a suffix.
RECURSIVE rstrip(_, _)
rstrip(s, chars) ==
    IF Len(s) > 0 /\ \E i \in 1..Len(chars) : CharAt(chars, i) = CharAt(s, Len(s))
    THEN rstrip(SubSeq(s, 1, Len(s) - 1), chars)
    ELSE s

removesuffixAsRstrip(s, suffix) == rstrip(s, suffix)

\* str.removesuffix(suffix): the string without the suffix when it ends with
\* the (non-empty) suffix, the string itself otherwise.
removesuffix(s, suffix) ==
    IF Len(suffix) > 0 /\ EndsWith(s, suffix)
    THEN SubSeq(s, 1, Len(s) - Len(suffix))
    ELSE s

(***************************************************************************)
(* The file tree.  A node is a path (its components below the current      *)
(* directory) and a kind.                                                  *)
(***************************************************************************)
File(p) == [path |-> p, kind |-> "file"]
Dir(p) == [path |-> p, kind |-> "dir"]

Universe ==
    { Dir(<<"toolchain">>),
      File(<<"toolchain">>),
      File(<<"setup.py">>),
      File(<<"toolchain", "main.py">>),
      File(<<"toolchain", ".conf.py">>),
      File(<<"toolchain", "x.py.py">>),
      File(<<"toolchain", "data.pyc">>),
      Dir(<<"toolchain", "ext.py">>),
      Dir(<<"toolchain", "ios">>),
      File(<<"toolchain", "ios", "build.py">>),
      Dir(<<"toolchain", "ios", "arm">>),
      File(<<"toolchain", "ios", "arm", "cc.py">>),
      Dir(<<"toolchain", ".git">>),
      File(<<"toolchain", ".git", "hook.py">>) }

Parent(p) == SubSeq(p, 1, Len(p) - 1)
Basename(p) == p[Len(p)]

\* A tree is a set of nodes in which no path is both a file and a directory
\* and every node below the top level lies in a directory of the tree.
ValidTree(t) ==
    /\ \A n, m \in t : n.path = m.path => n = m
    /\ \A n \in t : Len(n.path) > 1 => Dir(Parent(n.path)) \in t

\* The file trees the manifest may be evaluated against.
Trees == { t \in SUBSET Universe : Cardinality(t) <= MaxNodes /\ ValidTree(t) }

Children(t, d) == { n \in t : Len(n.path) = Len(d) + 1 /\ Parent(n.path) = d }

\* os.path.join of the components of a path.
RECURSIVE PathStr(_)
PathStr(p) ==
    IF Len(p) = 1 THEN p[1]
    ELSE PathStr(Parent(p)) \o "/" \o Basename(p)

(***************************************************************************)
(* glob.glob('toolchain/**/*.py', recursive=True)                          *)
(***************************************************************************)
\* glob._ishidden: a name that starts with a dot.
IsHidden(name) == Len(name) > 0 /\ CharAt(name, 1) = "."

\* fnmatch of a name against the pattern '*.py'.
MatchesPy(name) == EndsWith(name, ".py")

\* The '**' component without recursive=True: it is an ordinary '*' and
\* stands for exactly one directory level.
RListDirNotRecursive(t, d) ==
    { c.path : c \in { n \in Children(t, d) :
                         n.kind = "dir" /\ ~IsHidden(Basename(n.path)) } }

\* glob._glob2 / glob._rlistdir for the '**' component: the directory itself
\* and, recursively, every directory below it that is not hidden.
RECURSIVE RListDir(_, _)
RListDir(t, d) ==
    {d} \cup UNION { RListDir(t, c.path) :
                       c \in { n \in Children(t, d) :
                                 n.kind = "dir" /\ ~IsHidden(Basename(n.path)) } }

\* glob._glob1 for the '*.py' component: the entries of a directory, files
\* and directories alike, that are not hidden and match the pattern.
Glob1(t, d) ==
    { n.path : n \in { c \in Children(t, d) :
                         ~IsHidden(Basename(c.path)) /\ MatchesPy(Basename(c.path)) } }

\* The set of paths the pattern matches in tree t.  The literal component
\* 'toolchain' must be a directory for anything below it to be listed.
GlobPaths(t) ==
    IF Dir(<<"toolchain">>) \in t
    THEN UNION { Glob1(t, d) : d \in RListDir(t, <<"toolchain">>) }
    ELSE {}

\* The lists glob may return for tree t: the matched paths, each once, in
\* the order the directory listing happens to give.
Orderings(S) ==
    { f \in [1..Cardinality(S) -> S] : \A i, j \in 1..Cardinality(S) : f[i] = f[j] => i = j }

\* A listing that raises when the directory 'toolchain' does not exist, as
\* os.listdir does: no list is returned.
GlobResultsOrRaise(t) ==
    IF Dir(<<"toolchain">>) \in t
    THEN { [i \in DOMAIN f |-> PathStr(f[i])] : f \in Orderings(GlobPaths(t)) }
    ELSE {}

GlobResults(t) ==
    { [i \in DOMAIN f |-> PathStr(f[i])] : f \in Orderings(GlobPaths(t)) }

(***************************************************************************)
(* The keyword arguments of setup(), lines 6-26 of setup.py.               *)
(***************************************************************************)
Metadata ==
    [ name         |-> Str("toolchain"),
      version      |-> Str("0.0.1"),
      description  |-> Str("Toolchain for compiling Python & Other Libraries for Python Multiplatform"),
      author       |-> Str("thisisthepy"),
      author_email |-> Str(""),
      url          |-> Str("https://github.com/thisisthepy/toolchain") ]

\* [path.removesuffix(".py") for path in <the list glob returned>]
Packages(paths) ==
    List([i \in DOMAIN paths |-> Str(removesuffix(paths[i], ".py"))])

InstallRequiresPinned ==
    List(<< Str("setuptools"), Str("requests>=2.0") >>)

InstallRequires ==
    List(<< Str("setuptools"), Str("requests") >>)

DependencyLinksUnpinned ==
    List(<< Str("git+https://github.com/thisisthepy/toolchain-ios.git#egg=toolchain-ios") >>)

DependencyLinks ==
    List(<< Str("git+https://github.com/thisisthepy/toolchain-ios.git@python3.11#egg=toolchain-ios") >>)

ConsoleScriptsRepeatedName ==
    List(<< Str("toolchain=toolchain.main:run_toolchain"),
            Str("toolchain_targetver=toolchain.main:set_target_build_version"),
            Str("toolchain_targetver=toolchain.main:set_target_os") >>)

ConsoleScriptsSwappedTarget ==
    List(<< Str("toolchain=toolchain.main:run_toolchain"),
            Str("toolchain_targetver=toolchain.main:set_target_os"),
            Str("toolchain_targetos=toolchain.main:set_target_build_version") >>)

ConsoleScripts ==
    List(<< Str("toolchain=toolchain.main:run_toolchain"),
            Str("toolchain_targetver=toolchain.main:set_target_build_version"),
            Str("toolchain_targetos=toolchain.main:set_target_os") >>)

EntryPoints ==
    Dict([ console_scripts |-> ConsoleScripts ])

(***************************************************************************)
(* The run of the manifest.                                                *)
(***************************************************************************)
Init ==
    /\ tree \in Trees
    /\ pc = "start"
    /\ matches = << >>
    /\ seenTree = {}
    /\ kwargs = << >>
    /\ calls = << >>
    /\ log = << >>
    /\ changes = 0

\* Lines 6-11: the metadata strings.
EvalMetadata ==
    /\ pc = "start"
    /\ kwargs' = Metadata
    /\ pc' = "glob"
    /\ UNCHANGED <<tree, matches, seenTree, calls, log, changes>>

\* Line 12, the call of glob: the file tree is listed.
Glob ==
    /\ pc = "glob"
    /\ \E r \in GlobResults(tree) : matches' = r
    /\ seenTree' = tree
    /\ log' = Append(log, "glob")
    /\ pc' = "strip"
    /\ UNCHANGED <<tree, kwargs, calls, changes>>

\* Line 12, the list comprehension over the list glob returned.
StripSuffixes ==
    /\ pc = "strip"
    /\ kwargs' = kwargs @@ [ packages |-> Packages(matches) ]
    /\ pc' = "deps"
    /\ UNCHANGED <<tree, matches, seenTree, calls, log, changes>>

\* Lines 13-26: the dependency lists and the entry point dict.
EvalDeclarations ==
    /\ pc = "deps"
    /\ kwargs' = kwargs @@ [ install_requires |-> InstallRequires,
                             dependency_links |-> DependencyLinks,
                             entry_points     |-> EntryPoints ]
    /\ pc' = "call"
    /\ UNCHANGED <<tree, matches, seenTree, calls, log, changes>>

\* setup() called from a position the run does not leave.
CallSetupRepeatedly ==
    /\ pc = "call"
    /\ Len(calls) < 2
    /\ calls' = Append(calls, kwargs)
    /\ log' = Append(log, "setup")
    /\ pc' = IF Len(calls) = 1 THEN "done" ELSE "call"
    /\ UNCHANGED <<tree, matches, seenTree, kwargs, changes>>

\* Lines 5 and 28: setup() is called with the keyword arguments.
CallSetup ==
    /\ pc = "call"
    /\ calls' = Append(calls, kwargs)
    /\ log' = Append(log, "setup")
    /\ pc' = "done"
    /\ UNCHANGED <<tree, matches, seenTree, kwargs, changes>>

\* Another process creates a file or a directory.
CreateNode ==
    /\ changes < MaxChanges
    /\ \E n \in Universe \ tree :
         /\ ValidTree(tree \cup {n})
         /\ Cardinality(tree) < MaxNodes
         /\ tree' = tree \cup {n}
    /\ changes' = changes + 1
    /\ UNCHANGED <<pc, matches, seenTree, kwargs, calls, log>>

\* Another process removes a file or an empty directory.
RemoveNode ==
    /\ changes < MaxChanges
    /\ \E n \in tree :
         /\ ValidTree(tree \ {n})
         /\ tree' = tree \ {n}
    /\ changes' = changes + 1
    /\ UNCHANGED <<pc, matches, seenTree, kwargs, calls, log>>

Next ==
    \/ EvalMetadata
    \/ Glob
    \/ StripSuffixes
    \/ EvalDeclarations
    \/ CallSetup
    \/ CreateNode
    \/ RemoveNode

Spec == Init /\ [][Next]_vars

(***************************************************************************)
(* Helpers of the properties.                                              *)
(***************************************************************************)
Positions(s, c) == { i \in 1..Len(s) : CharAt(s, i) = c }
Count(s, c) == Cardinality(Positions(s, c))

\* str.find: the place of the first occurrence of c from place i on, 0 if none.
RECURSIVE Find(_, _, _)
Find(s, c, i) ==
    IF i > Len(s) THEN 0
    ELSE IF CharAt(s, i) = c THEN i
    ELSE Find(s, c, i + 1)

\* str.partition: the parts before and after the first occurrence of c.
Before(s, c) ==
    LET k == Find(s, c, 1) IN IF k = 0 THEN s ELSE SubSeq(s, 1, k - 1)
After(s, c) ==
    LET k == Find(s, c, 1) IN IF k = 0 THEN "" ELSE SubSeq(s, k + 1, Len(s))

Range(f) == { f[i] : i \in DOMAIN f }
Values(list) == [i \in DOMAIN list.items |-> list.items[i].val]

Letters ==
    { "a", "b", "c", "d", "e", "f", "g", "h", "i", "j", "k", "l", "m",
      "n", "o", "p", "q", "r", "s", "t", "u", "v", "w", "x", "y", "z",
      "A", "B", "C", "D", "E", "F", "G", "H", "I", "J", "K", "L", "M",
      "N", "O", "P", "Q", "R", "S", "T", "U", "V", "W", "X", "Y", "Z", "_" }
Digits == { "0", "1", "2", "3", "4", "5", "6", "7", "8", "9" }

\* The record setup() was called with, once the run is over.
Done == pc = "done" /\ Len(calls) = 1
Passed == calls[1]
Scripts == Values(Passed.entry_points.map.console_scripts)

\* The parts of a console_scripts entry name=module:callable.
EntryName(e) == Before(e, "=")
EntryModule(e) == Before(After(e, "="), ":")
EntryCallable(e) == After(After(e, "="), ":")

(***************************************************************************)
(* C1: every console_scripts entry passed to setup() has the form          *)
(* name=module:callable, with exactly one "=" and exactly one ":" and a    *)
(* non-empty name, module and callable, and no two entries have the same   *)
(* name, whatever the file tree.                                           *)
(***************************************************************************)
C1_EntryPointsWellFormed ==
    Done =>
        LET scripts == Scripts
            name == [i \in DOMAIN scripts |-> EntryName(scripts[i])]
            module == [i \in DOMAIN scripts |-> EntryModule(scripts[i])]
            callable == [i \in DOMAIN scripts |-> EntryCallable(scripts[i])]
        IN  /\ \A i \in DOMAIN scripts :
                 /\ Count(scripts[i], "=") = 1
                 /\ Count(scripts[i], ":") = 1
                 /\ Len(name[i]) > 0
                 /\ Len(module[i]) > 0
                 /\ Len(callable[i]) > 0
                 /\ scripts[i] = name[i] \o "=" \o module[i] \o ":" \o callable[i]
            /\ \A i, j \in DOMAIN scripts : name[i] = name[j] => i = j

C1_Witness ==
    /\ Done
    /\ Len(Scripts) = 3
    /\ File(<<"toolchain", "main.py">>) \in seenTree

(***************************************************************************)
(* C2: exactly three entry points are registered: toolchain,               *)
(* toolchain_targetver and toolchain_targetos, which map to                *)
(* toolchain.main:run_toolchain, toolchain.main:set_target_build_version   *)
(* and toolchain.main:set_target_os.                                       *)
(***************************************************************************)
ExpectedTargets ==
    [ toolchain           |-> "toolchain.main:run_toolchain",
      toolchain_targetver |-> "toolchain.main:set_target_build_version",
      toolchain_targetos  |-> "toolchain.main:set_target_os" ]

C2_ThreeEntryPoints ==
    Done =>
        LET scripts == Scripts
            name == [i \in DOMAIN scripts |-> EntryName(scripts[i])]
        IN  /\ Len(scripts) = 3
            /\ DOMAIN Passed.entry_points.map = {"console_scripts"}
            /\ Range(name) = DOMAIN ExpectedTargets
            /\ \A i \in DOMAIN scripts :
                 /\ name[i] \in DOMAIN ExpectedTargets
                 /\ After(scripts[i], "=") = ExpectedTargets[name[i]]

C2_Witness ==
    /\ Done
    /\ \E i \in DOMAIN Scripts : EntryName(Scripts[i]) = "toolchain_targetos"
    /\ Dir(<<"toolchain">>) \notin seenTree

(***************************************************************************)
(* C5: install_requires holds exactly setuptools and requests, with no     *)
(* version constraint, whatever the file tree.                             *)
(***************************************************************************)
NameChars == Letters \cup Digits \cup { "-", "." }

C5_RuntimeDependencies ==
    Done =>
        LET reqs == Values(Passed.install_requires)
        IN  /\ Len(reqs) = 2
            /\ Range(reqs) = { "setuptools", "requests" }
            /\ \A i \in DOMAIN reqs :
                 \A k \in 1..Len(reqs[i]) : CharAt(reqs[i], k) \in NameChars

C5_Witness ==
    /\ Done
    /\ Len(Passed.install_requires.items) = 2
    /\ Len(Passed.packages.items) > 0

(***************************************************************************)
(* C6: dependency_links holds exactly one link, a git+https URL that is    *)
(* pinned to the branch python3.11 with an "@" part and names the egg      *)
(* toolchain-ios with a "#egg=" part.                                      *)
(***************************************************************************)
C6_OneExternalDependency ==
    Done =>
        LET links == Values(Passed.dependency_links)
            link == links[1]
            pin == After(link, "@")
        IN  /\ Len(links) = 1
            /\ StartsWith(link, "git+https://")
            /\ Count(link, "@") = 1
            /\ Count(link, "#") = 1
            /\ Len(Before(link, "@")) > Len("git+https://")
            /\ Before(pin, "#") = "python3.11"
            /\ After(pin, "#") = "egg=toolchain-ios"

C6_Witness ==
    /\ Done
    /\ Len(Passed.dependency_links.items) = 1
    /\ tree # seenTree

(***************************************************************************)
(* C3: every file under toolchain/, at any depth, whose name ends in .py   *)
(* contributes one entry to the packages list.                             *)
(***************************************************************************)
\* The files of tree t below toolchain/ whose name ends in ".py".
PyFilesBelowToolchain(t) ==
    { n \in t : /\ n.kind = "file"
                /\ Len(n.path) >= 2
                /\ n.path[1] = "toolchain"
                /\ EndsWith(Basename(n.path), ".py") }

\* No component of the path below toolchain/ starts with a dot.
NothingHidden(p) == \A k \in 2..Len(p) : ~IsHidden(p[k])

\* The file is listed once by glob and the packages entry at that place is
\* its path without the suffix.
ContributesOneEntry(n) ==
    /\ Cardinality({ i \in DOMAIN matches : matches[i] = PathStr(n.path) }) = 1
    /\ \A i \in DOMAIN matches :
         matches[i] = PathStr(n.path) =>
             Passed.packages.items[i] = Str(removesuffix(PathStr(n.path), ".py"))

\* The claim as stated: hidden files and files in hidden directories too.
C3_EveryPyFileContributes ==
    Done => \A n \in PyFilesBelowToolchain(seenTree) : ContributesOneEntry(n)

\* The claim as amended: the files that are not hidden and lie in no hidden
\* directory.
C3_EveryVisiblePyFileContributes ==
    Done =>
        \A n \in PyFilesBelowToolchain(seenTree) :
            NothingHidden(n.path) => ContributesOneEntry(n)

C3_Witness ==
    /\ Done
    /\ File(<<"toolchain", "ios", "arm", "cc.py">>) \in seenTree
    /\ \E i \in DOMAIN matches :
         /\ matches[i] = "toolchain/ios/arm/cc.py"
         /\ Passed.packages.items[i].val = "toolchain/ios/arm/cc"

(***************************************************************************)
(* C4: evaluating the manifest never ends in an error: from every file     *)
(* tree, an absent or empty toolchain/ included, each position before the  *)
(* call has a next step, and setup() is called with a record whose name,   *)
(* version, description, author, author_email and url are strings, whose   *)
(* packages, install_requires and dependency_links are lists of strings    *)
(* and whose entry_points maps a group name to a list of strings.          *)
(***************************************************************************)
IsStr(v) == DOMAIN v = {"type", "val"} /\ v.type = "str"
IsStrList(v) ==
    /\ DOMAIN v = {"type", "items"}
    /\ v.type = "list"
    /\ \A i \in DOMAIN v.items : IsStr(v.items[i])
IsGroupDict(v) ==
    /\ DOMAIN v = {"type", "map"}
    /\ v.type = "dict"
    /\ \A g \in DOMAIN v.map : IsStrList(v.map[g])

WellFormed(r) ==
    /\ DOMAIN r = { "name", "version", "description", "author", "author_email",
                    "url", "packages", "install_requires", "dependency_links",
                    "entry_points" }
    /\ \A f \in { "name", "version", "description", "author", "author_email", "url" } :
         IsStr(r[f])
    /\ \A f \in { "packages", "install_requires", "dependency_links" } :
         IsStrList(r[f])
    /\ IsGroupDict(r.entry_points)

Step == EvalMetadata \/ Glob \/ StripSuffixes \/ EvalDeclarations \/ CallSetup

C4_NoErrorWellFormed ==
    /\ pc # "done" => ENABLED Step
    /\ pc = "done" => Len(calls) = 1 /\ WellFormed(calls[1])

C4_Witness ==
    /\ Done
    /\ Dir(<<"toolchain">>) \notin seenTree
    /\ Passed.packages = List(<< >>)

(***************************************************************************)
(* C7: the manifest is processed once and in order: the file tree is       *)
(* globbed first, setup() is then called exactly one time with the record  *)
(* built from what glob returned, and after the call the record does not   *)
(* change, even when the file tree changes.                                *)
(***************************************************************************)
C7_GlobThenSetupOnce ==
    [][ /\ Len(calls') <= 1
        /\ calls' # calls =>
             /\ log' = << "glob", "setup" >>
             /\ calls' = << kwargs >>
             /\ matches \in GlobResults(seenTree)
             /\ kwargs.packages = Packages(matches)
        /\ Len(calls) = 1 => calls' = calls
        /\ pc' = "done" => Len(calls') = 1 ]_vars

C7_Witness ==
    /\ Done
    /\ log = << "glob", "setup" >>
    /\ GlobPaths(tree) # GlobPaths(seenTree)
    /\ Passed.packages = Packages(matches)
    /\ Len(matches) > 0

(***************************************************************************)
(* C8: every entry of the packages list is an importable dotted name:      *)
(* identifiers separated by ".", with no path separator "/".               *)
(***************************************************************************)
IsIdentifier(s) ==
    /\ Len(s) > 0
    /\ CharAt(s, 1) \in Letters
    /\ \A k \in 1..Len(s) : CharAt(s, k) \in Letters \cup Digits

\* s is a sequence of identifiers separated by ".": every maximal run of
\* characters between dots is an identifier.
IsDottedName(s) ==
    /\ Len(s) > 0
    /\ Count(s, "/") = 0
    /\ \A a, b \in 1..Len(s) :
         ( /\ a <= b
           /\ (a = 1 \/ CharAt(s, a - 1) = ".")
           /\ (b = Len(s) \/ CharAt(s, b + 1) = ".")
           /\ \A k \in a..b : CharAt(s, k) # "." ) => IsIdentifier(SubSeq(s, a, b))
    /\ CharAt(s, 1) # "."
    /\ CharAt(s, Len(s)) # "."
    /\ \A k \in 1..(Len(s) - 1) : ~(CharAt(s, k) = "." /\ CharAt(s, k + 1) = ".")

C8_PackagesAreDottedNames ==
    Done => \A i \in DOMAIN Passed.packages.items :
                IsDottedName(Passed.packages.items[i].val)

(***************************************************************************)
(* C9: whenever toolchain/main.py exists, the module toolchain.main that   *)
(* the three entry points target is covered by an entry of the packages    *)
(* list (the module toolchain.main or its package toolchain); and the      *)
(* three entry points are registered the same with or without it.          *)
(***************************************************************************)
C9_EntryPointModuleCovered ==
    Done =>
        /\ Passed.entry_points = EntryPoints
        /\ \A i \in DOMAIN Scripts : EntryModule(Scripts[i]) = "toolchain.main"
        /\ File(<<"toolchain", "main.py">>) \in seenTree =>
             \E i \in DOMAIN Passed.packages.items :
                 Passed.packages.items[i].val \in { "toolchain.main", "toolchain" }

(***************************************************************************)
(* C10: stripping the suffix is a round trip and is injective: each        *)
(* packages entry followed by ".py" is the matched path it came from (one  *)
(* trailing ".py" is removed: x.py.py gives x.py), every entry begins with *)
(* "toolchain/", there are as many entries as matched paths, and distinct  *)
(* matched paths give distinct entries.                                    *)
(***************************************************************************)
C10_StripIsRoundTrip ==
    "packages" \in DOMAIN kwargs =>
        LET entries == Values(kwargs.packages)
        IN  /\ Len(entries) = Len(matches)
            /\ Len(matches) = Cardinality(GlobPaths(seenTree))
            /\ \A i \in DOMAIN matches :
                 /\ entries[i] \o ".py" = matches[i]
                 /\ StartsWith(entries[i], "toolchain/")
                 /\ matches[i] = "toolchain/x.py.py" => entries[i] = "toolchain/x.py"
            /\ \A i, j \in DOMAIN matches :
                 matches[i] # matches[j] => entries[i] # entries[j]

C10_Witness ==
    /\ Done
    /\ Len(matches) >= 2
    /\ \E i \in DOMAIN matches :
         /\ matches[i] = "toolchain/x.py.py"
         /\ Passed.packages.items[i].val = "toolchain/x.py"

====
